---- MODULE Spec2Model ----
(***************************************************************************)
(* prepare_context.py (deploy/dev and deploy/lightsail): main() reads the  *)
(* secret bundle from SECRET_JSON, normalises its keys, derives the env    *)
(* body, validates, writes the SSH key and the env file and appends the    *)
(* GitHub Action outputs.  One run of main() is one behaviour; every       *)
(* statement group of main() is one action, so that the files can be       *)
(* observed at the moment a run fails.                                     *)
(*                                                                         *)
(* A text is a sequence of atoms.  An atom is one of the separators        *)
(* "\n", "=", "<<", "." or a run of other characters; the value of         *)
(* lightsail_private_key_b64 is kept character by character.               *)
(***************************************************************************)
EXTENDS Integers, Sequences, FiniteSets, TLC

VARIABLES
    variant,        \* which of the two scripts runs: "dev" or "lightsail"
    environ,        \* os.environ["SECRET_JSON"], by what json.loads makes of it
    before,         \* the three files as the run finds them
    pc,             \* position of main()
    secret,         \* the local `secret`
    secret_mapped,  \* the local `secret_mapped`
    env_parts,      \* the local `env_parts`
    key_bytes,      \* the local `key_bytes`
    env_content,    \* the local `env_content`
    outputs,        \* the local `outputs`, an ordered dict
    output_file,    \* the local `output_file`: os.environ.get("GITHUB_OUTPUT")
    ssh_dir,        \* <home>/.ssh
    key_file,       \* <home>/.ssh/lightsail
    env_file,       \* deploy/<variant>/.env.remote
    gh_output,      \* what the run appended to the file $GITHUB_OUTPUT names
    stderr,         \* lines printed to sys.stderr
    exit_status     \* process exit status, -1 while running

vars == <<variant, environ, before, pc, secret, secret_mapped, env_parts, key_bytes,
          env_content, outputs, output_file, ssh_dir, key_file, env_file, gh_output,
          stderr, exit_status>>

-----------------------------------------------------------------------------
(* Bounds of the inputs.                                                   *)

\* how many keys of a base bundle one input changes (sets or removes)
MaxExtra == 1

-----------------------------------------------------------------------------
(* JSON values and Python's treatment of them.                             *)

NL == "\n"

Str(s) == [t |-> "str", s |-> s, n |-> 0]
Num(n) == [t |-> "int", s |-> <<>>, n |-> n]
None == [t |-> "none", s |-> <<>>, n |-> 0]

\* bool(v): "" and 0 and None are false
Truthy(v) == IF v.t = "str" THEN v.s # <<>> ELSE IF v.t = "int" THEN v.n # 0 ELSE FALSE

\* f"{v}" and str(v)
Format(v) == IF v.t = "str" THEN v.s ELSE IF v.t = "int" THEN <<ToString(v.n)>> ELSE <<"None">>

\* a or b
Or(a, b) == IF Truthy(a) THEN a ELSE b

\* d.get(k)
Get(d, k) == IF k \in DOMAIN d THEN d[k] ELSE None

\* d.get(k, default)
GetOr(d, k, default) == IF k \in DOMAIN d THEN d[k] ELSE default

\* d[k] = v
Put(d, k, v) == [x \in DOMAIN d \cup {k} |-> IF x = k THEN v ELSE d[x]]

EmptyDict == [k \in {} |-> None]

\* s.replace('.', '_')
ReplaceDots(s) == [i \in 1..Len(s) |-> IF s[i] = "." THEN "_" ELSE s[i]]

\* sep.join(parts)
RECURSIVE Join(_, _)
Join(parts, sep) ==
    IF parts = <<>> THEN <<>>
    ELSE IF Len(parts) = 1 THEN parts[1]
    ELSE parts[1] \o sep \o Join(Tail(parts), sep)

\* the local `secret` is whatever json.loads returned: a dict or not
JDict(d) == [t |-> "dict", d |-> d]
JScalar == [t |-> "int", d |-> EmptyDict]

-----------------------------------------------------------------------------
(* base64.b64decode(b64_value), as binascii.a2b_base64 computes it with    *)
(* validate=False: characters outside the alphabet are skipped, a pad      *)
(* sequence that completes a quad ends the decoding, and a quad left       *)
(* incomplete at the end is "Incorrect padding".                           *)

B64Chars ==
    << "A","B","C","D","E","F","G","H","I","J","K","L","M","N","O","P",
       "Q","R","S","T","U","V","W","X","Y","Z","a","b","c","d","e","f",
       "g","h","i","j","k","l","m","n","o","p","q","r","s","t","u","v",
       "w","x","y","z","0","1","2","3","4","5","6","7","8","9","+","/" >>

IsB64Char(c) == \E i \in 1..Len(B64Chars) : B64Chars[i] = c

B64Index(c) == (CHOOSE i \in 1..Len(B64Chars) : B64Chars[i] = c) - 1

\* the one non-ASCII character of the inputs
NonAscii == "\\u00e9"

RECURSIVE A2B(_, _, _, _, _)
A2B(s, quad_pos, leftchar, pads, out) ==
    IF s = <<>>
    THEN IF quad_pos # 0 THEN [ok |-> FALSE, bytes |-> <<>>]
                         ELSE [ok |-> TRUE, bytes |-> out]
    ELSE LET c == Head(s) IN
         IF c = "="
         THEN IF quad_pos >= 2 /\ quad_pos + pads + 1 >= 4
              THEN [ok |-> TRUE, bytes |-> out]
              ELSE A2B(Tail(s), quad_pos, leftchar,
                       IF quad_pos >= 2 THEN pads + 1 ELSE pads, out)
         ELSE IF ~IsB64Char(c)
         THEN A2B(Tail(s), quad_pos, leftchar, pads, out)
         ELSE LET v == B64Index(c) IN
              CASE quad_pos = 0 -> A2B(Tail(s), 1, v, 0, out)
                [] quad_pos = 1 ->
                     A2B(Tail(s), 2, v % 16, 0, Append(out, leftchar * 4 + (v \div 16)))
                [] quad_pos = 2 ->
                     A2B(Tail(s), 3, v % 4, 0, Append(out, leftchar * 16 + (v \div 4)))
                [] OTHER ->
                     A2B(Tail(s), 0, 0, 0, Append(out, leftchar * 64 + v))

\* "raises" is the exception class, "" when none is raised
B64Decode(v) ==
    IF v.t # "str" THEN [raises |-> "TypeError", bytes |-> <<>>]
    ELSE IF \E i \in 1..Len(v.s) : v.s[i] = NonAscii
    THEN [raises |-> "ValueError", bytes |-> <<>>]
    ELSE LET r == A2B(v.s, 0, 0, 0, <<>>) IN
         IF r.ok THEN [raises |-> "", bytes |-> r.bytes]
                 ELSE [raises |-> "binascii.Error", bytes |-> <<>>]

-----------------------------------------------------------------------------
(* Key normalisation: secret -> secret_mapped.                             *)

DirectKeys ==
    { "lightsail_host", "lightsail_user", "lightsail_port",
      "lightsail_private_key_b64", "remote_project_path",
      "docker_compose_file", "env_file_content" }

MapDirect(s) == [k \in DirectKeys \cap DOMAIN s |-> s[k]]

\* MapHost with LIGHTSAIL_IP taking precedence over lightsail_host
MapHostSwapped(s, m) ==
    IF "LIGHTSAIL_IP" \in DOMAIN s
    THEN Put(m, "lightsail_host", s["LIGHTSAIL_IP"])
    ELSE m

MapHost(s, m) ==
    LET m1 == IF "LIGHTSAIL_IP" \in DOMAIN s /\ "lightsail_host" \notin DOMAIN m
              THEN Put(m, "lightsail_host", s["LIGHTSAIL_IP"])
              ELSE m
    IN  IF "lightsail_host" \in DOMAIN s /\ "lightsail_host" \notin DOMAIN m1
        THEN Put(m1, "lightsail_host", s["lightsail_host"])
        ELSE m1

MapUser(s, m) ==
    IF "lightsail_user" \in DOMAIN s
    THEN Put(m, "lightsail_user", s["lightsail_user"])
    ELSE IF "LIGHTSAIL_USER" \in DOMAIN s
    THEN Put(m, "lightsail_user", s["LIGHTSAIL_USER"])
    ELSE m

MapPort(s, m) ==
    IF "lightsail_port" \in DOMAIN s
    THEN Put(m, "lightsail_port", s["lightsail_port"])
    ELSE IF "LIGHTSAIL_PORT" \in DOMAIN s
    THEN Put(m, "lightsail_port", s["LIGHTSAIL_PORT"])
    ELSE m

MapKey(s, m) ==
    IF "lightsail_private_key_b64" \in DOMAIN s
    THEN Put(m, "lightsail_private_key_b64", s["lightsail_private_key_b64"])
    ELSE m

NormalizeKeys(s) == MapKey(s, MapPort(s, MapUser(s, MapHost(s, MapDirect(s)))))

-----------------------------------------------------------------------------
(* The derived env body: env_parts.                                        *)

\* f"{key}={value}"
Entry(key, v) == <<key, "=">> \o Format(v)

\* if key in secret: env_parts.append(f"{key}={secret[key]}")
IfPresent(s, key) == IF key \in DOMAIN s THEN <<Entry(key, s[key])>> ELSE <<>>

\* if value: env_parts.append(f"{key}={value}")
IfTruthy(key, v) == IF Truthy(v) THEN <<Entry(key, v)>> ELSE <<>>

DevDbHost(s) == Or(Or(Get(s, "DATABASE_ENDPOINT"), Get(s, "RDS_HOSTNAME")), Get(s, "DB_HOST"))
DevDbName(s) == Or(Or(Get(s, "DATABASE_NAME"), Get(s, "RDS_DB_NAME")), Get(s, "DB_NAME"))
DevDbUser(s) == Or(Or(Get(s, "DATABASE_USERNAME"), Get(s, "RDS_USERNAME")), Get(s, "DB_USER"))
DevDbPassword(s) == Or(Or(Get(s, "DATABASE_PASSWORD"), Get(s, "RDS_PASSWORD")), Get(s, "DB_PASSWORD"))
DevAdminPassword(s) == Or(Get(s, "ADMIN_PASSWORD"), Get(s, "FRA_ADMIN_PASSWORD"))
DevDbPort(s) == Or(Or(Get(s, "DATABASE_PORT"), Get(s, "RDS_PORT")), Get(s, "DB_PORT"))

DevDbParts(s) ==
    IfTruthy("DB_HOST", DevDbHost(s)) \o IfTruthy("DB_NAME", DevDbName(s))
    \o IfTruthy("DB_USER", DevDbUser(s)) \o IfTruthy("DB_PASSWORD", DevDbPassword(s))

DevAdminPart(s) == IfTruthy("ADMIN_PASSWORD", DevAdminPassword(s))

\* DevDbPortPart without the 3306 default
DevDbPortPartNoDefault(s) ==
    IF Truthy(DevDbPort(s)) THEN <<Entry("DB_PORT", DevDbPort(s))>> ELSE <<>>

DevDbPortPart(s) ==
    IF Truthy(DevDbPort(s)) THEN <<Entry("DB_PORT", DevDbPort(s))>>
    ELSE IF Truthy(DevDbHost(s)) THEN << <<"DB_PORT", "=", "3306">> >>
    ELSE <<>>

\* the lightsail script renames the key: f"DB_HOST={secret['DATABASE_ENDPOINT']}"
IfPresentAs(s, key, name) == IF key \in DOMAIN s THEN <<Entry(name, s[key])>> ELSE <<>>

LightsailDbParts(s) ==
    IfPresentAs(s, "DATABASE_ENDPOINT", "DB_HOST") \o IfPresentAs(s, "DATABASE_NAME", "DB_NAME")
    \o IfPresentAs(s, "DATABASE_USERNAME", "DB_USER")
    \o IfPresentAs(s, "DATABASE_PASSWORD", "DB_PASSWORD")

LightsailDbPortPart(s) ==
    IF "DATABASE_PORT" \in DOMAIN s THEN <<Entry("DB_PORT", s["DATABASE_PORT"])>>
    ELSE IF "DATABASE_ENDPOINT" \in DOMAIN s THEN << <<"DB_PORT", "=", "3306">> >>
    ELSE <<>>

\* the SITE_NAME fallbacks call .replace on a value that may not be a str
SiteNameRaises(s, m) ==
    /\ "SITE_NAME" \notin DOMAIN s
    /\ IF "LIGHTSAIL_IP" \in DOMAIN s THEN s["LIGHTSAIL_IP"].t # "str"
       ELSE "lightsail_host" \in DOMAIN m /\ m["lightsail_host"].t # "str"

SiteParts(s, m) ==
    (IF "SITE_NAME" \in DOMAIN s THEN <<Entry("SITE_NAME", s["SITE_NAME"])>>
     ELSE IF "LIGHTSAIL_IP" \in DOMAIN s
     THEN << <<"SITE_NAME", "=">> \o ReplaceDots(s["LIGHTSAIL_IP"].s) >>
     ELSE IF "lightsail_host" \in DOMAIN m
     THEN << <<"SITE_NAME", "=">> \o ReplaceDots(m["lightsail_host"].s) >>
     ELSE <<>>)
    \o IfPresent(s, "SITE_URL")

DevBucketParts(s) ==
    IfPresent(s, "BUCKET_NAME") \o IfPresent(s, "BUCKET_ENDPOINT")
    \o IfPresent(s, "BUCKET_REGION") \o IfPresent(s, "BUCKET_ACCESS_KEY_ID")
    \o IfPresent(s, "BUCKET_SECRET_ACCESS_KEY")

DevFlagParts(s) ==
    IfPresent(s, "FILES_BACK_UP_HOURS") \o IfPresent(s, "EXISTING_SITE")
    \o IfPresent(s, "UPDATE_CODE") \o IfPresent(s, "CERTBOT_DOMAIN")
    \o IfPresent(s, "CERTBOT_EMAIL")

\* DevEnvParts with the DB_PORT entry appended ahead of ADMIN_PASSWORD
DevEnvPartsPortFirst(s, m) ==
    DevDbParts(s) \o DevDbPortPart(s) \o DevAdminPart(s) \o SiteParts(s, m)
    \o DevBucketParts(s) \o DevFlagParts(s)

DevEnvParts(s, m) ==
    DevDbParts(s) \o DevAdminPart(s) \o DevDbPortPart(s) \o SiteParts(s, m)
    \o DevBucketParts(s) \o DevFlagParts(s)

LightsailEnvParts(s, m) == LightsailDbParts(s) \o LightsailDbPortPart(s) \o SiteParts(s, m)

EnvParts(v, s, m) == IF v = "dev" THEN DevEnvParts(s, m) ELSE LightsailEnvParts(s, m)

\* "\n".join(env_parts) + "\n"
Body(parts) == Join(parts, <<NL>>) \o <<NL>>

\* secret_mapped after "Add any existing env_file_content or use the built one"
WithEnvContent(s, m, parts) ==
    IF "env_file_content" \in DOMAIN s THEN Put(m, "env_file_content", s["env_file_content"])
    ELSE IF parts # <<>> THEN Put(m, "env_file_content", Str(Body(parts)))
    ELSE m

-----------------------------------------------------------------------------
(* Defaults, validation, the files and the outputs.                        *)

DefaultRemotePath == Str(<<"/opt/frappe-hrms">>)
DefaultComposeFile == Str(<<"docker/docker-compose", ".", "yml">>)
DefaultPort == Str(<<"22">>)

\* WithDefaults assigning the default path whether or not one is given
WithDefaultsOverriding(m) ==
    LET m1 == Put(m, "remote_project_path", DefaultRemotePath)
    IN  IF "docker_compose_file" \notin DOMAIN m1
        THEN Put(m1, "docker_compose_file", DefaultComposeFile) ELSE m1

WithDefaults(m) ==
    LET m1 == IF "remote_project_path" \notin DOMAIN m
              THEN Put(m, "remote_project_path", DefaultRemotePath) ELSE m
    IN  IF "docker_compose_file" \notin DOMAIN m1
        THEN Put(m1, "docker_compose_file", DefaultComposeFile) ELSE m1

RequiredFields ==
    <<"lightsail_host", "lightsail_user", "lightsail_private_key_b64", "remote_project_path">>

\* IsMissing testing presence only: `field not in secret`
IsMissingAbsentOnly(d, f) == f \notin DOMAIN d

\* [field for field in required_fields if not secret.get(field)]
IsMissing(d, f) == ~Truthy(Get(d, f))
MissingFields(d) == SelectSeq(RequiredFields, LAMBDA f : IsMissing(d, f))

MissingPrefix == "Missing required keys in AWS secret: "

\* f"Missing required keys in AWS secret: {', '.join(missing)}"
MissingMessage(missing) ==
    <<MissingPrefix>> \o Join([i \in 1..Len(missing) |-> <<missing[i]>>], <<", ">>)

Mode0700 == 448
Mode0600 == 384
\* what mkdir and open give a new directory and a new file under the umask 022
NewDirMode == 493
NewFileMode == 420

NoFile == [exists |-> FALSE, data |-> <<>>, mode |-> 0]

\* a runner that holds none of the files, and one that an earlier run left its
\* files on: mkdir(exist_ok=True) and the writes accept both
FreshRunner == [ssh_dir |-> NoFile, key_file |-> NoFile, env_file |-> NoFile]
UsedRunner ==
    [ssh_dir |-> [exists |-> TRUE, data |-> <<>>, mode |-> NewDirMode],
     key_file |-> [exists |-> TRUE, data |-> <<79, 76, 68>>, mode |-> NewFileMode],
     env_file |-> [exists |-> TRUE, data |-> <<"OLD", "=", "1", NL>>, mode |-> NewFileMode]]

\* str(pathlib.Path.home() / ".ssh" / "lightsail")
KeyPath == <<"/home/runner/", ".", "ssh/lightsail">>

\* "deploy/dev/.env.remote" or "deploy/lightsail/.env.remote"
EnvPath(v) == <<"deploy/" \o v \o "/", ".", "env", ".", "remote">>

Out(name, value) == [name |-> name, value |-> value]

PortOutput(d) == Str(Format(GetOr(d, "lightsail_port", DefaultPort)))

MakeOutputs(v, d, content) ==
    << Out("host", d["lightsail_host"]),
       Out("user", d["lightsail_user"]),
       Out("ssh_key_path", Str(KeyPath)),
       Out("remote_path", d["remote_project_path"]),
       Out("port", PortOutput(d)),
       Out("compose_file", GetOr(d, "docker_compose_file", DefaultComposeFile)),
       Out("env_file", Str(EnvPath(v))),
       Out("env_content", content) >>

\* what the loop writes for one output
RenderOutput(o) ==
    IF o.name = "env_content"
    THEN <<o.name, "<<", "EOF", NL>> \o o.value.s \o <<NL, "EOF", NL>>
    ELSE <<o.name, "=">> \o Format(o.value) \o <<NL>>

RECURSIVE RenderOutputs(_)
RenderOutputs(os) ==
    IF os = <<>> THEN <<>> ELSE RenderOutput(Head(os)) \o RenderOutputs(Tail(os))

-----------------------------------------------------------------------------
(* The inputs: the bundles a run is given.                                 *)

AllKeys ==
    DirectKeys \cup
    { "LIGHTSAIL_IP", "LIGHTSAIL_USER", "LIGHTSAIL_PORT",
      "DATABASE_ENDPOINT", "RDS_HOSTNAME", "DB_HOST",
      "DATABASE_NAME", "RDS_DB_NAME", "DB_NAME",
      "DATABASE_USERNAME", "RDS_USERNAME", "DB_USER",
      "DATABASE_PASSWORD", "RDS_PASSWORD", "DB_PASSWORD",
      "ADMIN_PASSWORD", "FRA_ADMIN_PASSWORD",
      "DATABASE_PORT", "RDS_PORT", "DB_PORT",
      "SITE_NAME", "SITE_URL",
      "BUCKET_NAME", "BUCKET_ENDPOINT", "BUCKET_REGION",
      "BUCKET_ACCESS_KEY_ID", "BUCKET_SECRET_ACCESS_KEY",
      "FILES_BACK_UP_HOURS", "EXISTING_SITE", "UPDATE_CODE",
      "CERTBOT_DOMAIN", "CERTBOT_EMAIL" }

Empty == Str(<<>>)
Plain(k) == Str(<<"val:" \o k>>)
Dotted(k) == Str(<<"10", ".", "0", ".", k>>)
Chars4(a, b, c, d) == Str(<<a, b, c, d>>)

\* the key is removed from the base bundle
Absent == [t |-> "absent", s |-> <<>>, n |-> 0]

ValsOf(k) ==
    CASE k \in {"lightsail_host", "LIGHTSAIL_IP"} ->
           {Dotted(k), Empty, Num(7), Str(<<"h", NL, "user", "=", "root">>)}
      [] k = "lightsail_user" -> {Plain(k), Empty, Num(0)}
      [] k = "lightsail_port" -> {Num(2222), Str(<<"2200">>), Empty}
      [] k = "LIGHTSAIL_PORT" -> {Num(2022), Empty}
      [] k = "lightsail_private_key_b64" ->
           { Chars4("Q", "U", "J", "D"), Chars4("Q", "U", "I", "="),
             Str(<<"Q", "U", "J">>), Str(<<"Q", "U", "!", "J", "D">>),
             Str(<<"Q", "Q", "=", "Q">>), Str(<<NonAscii>>), Empty, Num(5) }
      [] k = "env_file_content" ->
           { Str(<<"A", "=", "1", NL, "B", "=", "2", NL>>), Empty,
             Str(<<"A", "=", "1", NL, "EOF", NL, "host", "=", "evil">>), Num(5) }
      [] k = "DATABASE_PORT" -> {Num(3307), Empty}
      [] k = "RDS_PORT" -> {Num(3308), Empty}
      [] k = "DB_PORT" -> {Str(<<"3309">>), Num(0)}
      [] k = "FILES_BACK_UP_HOURS" -> {Num(6), Empty}
      [] OTHER -> {Plain(k), Empty}

AllVals == UNION {ValsOf(k) : k \in AllKeys} \cup {Absent}

\* a dict from <<key, value>> pairs
Dict(pairs) ==
    [k \in {pairs[i][1] : i \in 1..Len(pairs)} |->
        pairs[CHOOSE i \in 1..Len(pairs) : pairs[i][1] = k][2]]

MinimalBundle ==
    Dict(<< <<"lightsail_host", Dotted("lightsail_host")>>,
            <<"lightsail_user", Plain("lightsail_user")>>,
            <<"lightsail_private_key_b64", Chars4("Q", "U", "J", "D")>> >>)

SynonymBundle ==
    Dict(<< <<"LIGHTSAIL_IP", Dotted("LIGHTSAIL_IP")>>,
            <<"LIGHTSAIL_USER", Plain("LIGHTSAIL_USER")>>,
            <<"LIGHTSAIL_PORT", Num(2022)>>,
            <<"lightsail_private_key_b64", Chars4("Q", "U", "I", "=")>>,
            <<"remote_project_path", Str(<<"/opt/app">>)>>,
            <<"docker_compose_file", Str(<<"compose", ".", "yml">>)>> >>)

DatabaseBundle ==
    Dict(<< <<"lightsail_host", Dotted("lightsail_host")>>,
            <<"lightsail_user", Plain("lightsail_user")>>,
            <<"lightsail_private_key_b64", Chars4("Q", "U", "J", "D")>>,
            <<"DATABASE_ENDPOINT", Plain("DATABASE_ENDPOINT")>>,
            <<"DATABASE_NAME", Plain("DATABASE_NAME")>>,
            <<"ADMIN_PASSWORD", Plain("ADMIN_PASSWORD")>>,
            <<"SITE_NAME", Plain("SITE_NAME")>>,
            <<"BUCKET_NAME", Plain("BUCKET_NAME")>>,
            <<"EXISTING_SITE", Plain("EXISTING_SITE")>> >>)

RdsBundle ==
    Dict(<< <<"LIGHTSAIL_IP", Dotted("LIGHTSAIL_IP")>>,
            <<"lightsail_user", Plain("lightsail_user")>>,
            <<"lightsail_private_key_b64", Chars4("Q", "U", "J", "D")>>,
            <<"RDS_HOSTNAME", Plain("RDS_HOSTNAME")>>,
            <<"RDS_PORT", Num(3308)>>,
            <<"DB_HOST", Plain("DB_HOST")>>,
            <<"FRA_ADMIN_PASSWORD", Plain("FRA_ADMIN_PASSWORD")>>,
            <<"SITE_URL", Plain("SITE_URL")>>,
            <<"CERTBOT_DOMAIN", Plain("CERTBOT_DOMAIN")>> >>)

BaseBundles == {EmptyDict, MinimalBundle, SynonymBundle, DatabaseBundle, RdsBundle}

\* the sets of at most n keys
RECURSIVE KeySets(_)
KeySets(n) ==
    IF n = 0 THEN {{}}
    ELSE KeySets(n - 1) \cup {ks \cup {k} : ks \in KeySets(n - 1), k \in AllKeys}

\* the changes of at most n keys: each key is set to one of its values or removed
Changes(n) ==
    UNION { {c \in [ks -> AllVals] : \A k \in ks : c[k] \in ValsOf(k) \cup {Absent}}
            : ks \in KeySets(n) }

Change(base, c) ==
    [k \in (DOMAIN base \cup DOMAIN c) \ {x \in DOMAIN c : c[x] = Absent} |->
        IF k \in DOMAIN c THEN c[k] ELSE base[k]]

Bundles == {Change(base, c) : base \in BaseBundles, c \in Changes(MaxExtra)}

\* SECRET_JSON: unset, "", not JSON, a JSON number, a JSON object (the bundle),
\* or the Secrets Manager shape {"SecretString": ...} whose value is the
\* bundle's JSON text, text that is not JSON, or not a string at all
Doc(kind, bundle) == [kind |-> kind, bundle |-> bundle]

Docs ==
    {Doc(k, EmptyDict) : k \in {"unset", "empty", "malformed", "scalar",
                                "wrapped_malformed", "wrapped_nonstr"}}
    \cup {Doc("object", b) : b \in Bundles}
    \cup {Doc("wrapped", b) : b \in BaseBundles}

\* the bundle a run is given, when it is given one
Bundle == environ.SECRET_JSON.bundle
HasBundle == environ.SECRET_JSON.kind \in {"object", "wrapped"}

-----------------------------------------------------------------------------
(* main(), one action per statement group.                                 *)

Init ==
    /\ variant \in {"dev", "lightsail"}
    /\ environ \in [SECRET_JSON : Docs]
    /\ before \in {FreshRunner, UsedRunner}
    /\ pc = "start"
    /\ secret = JDict(EmptyDict)
    /\ secret_mapped = EmptyDict
    /\ env_parts = <<>>
    /\ key_bytes = <<>>
    /\ env_content = None
    /\ outputs = <<>>
    /\ output_file = None
    /\ ssh_dir = before.ssh_dir
    /\ key_file = before.key_file
    /\ env_file = before.env_file
    /\ gh_output = <<>>
    /\ stderr = <<>>
    /\ exit_status = -1

Tag == "[prepare_context] "

\* fail(message): one line on stderr, then SystemExit(1)
Fail(message) ==
    /\ stderr' = Append(stderr, <<Tag>> \o message)
    /\ exit_status' = 1
    /\ pc' = "failed"

\* an exception nothing catches: the interpreter prints the traceback and
\* the process ends with status 1
Uncaught(exc) ==
    /\ stderr' = stderr \o << <<"Traceback (most recent call last):">>, <<exc>> >>
    /\ exit_status' = 1
    /\ pc' = "crashed"

Goto(label) ==
    /\ pc' = label
    /\ UNCHANGED <<stderr, exit_status>>

ReadSecret ==
    /\ pc = "start"
    /\ LET kind == environ.SECRET_JSON.kind IN
       IF kind \in {"unset", "empty"}
       THEN Fail(<<"SECRET_JSON environment variable is empty">>) /\ UNCHANGED secret
       ELSE IF kind \in {"malformed", "wrapped_malformed"}
       THEN Fail(<<"Unable to parse SECRET_JSON: ", "JSONDecodeError">>) /\ UNCHANGED secret
       ELSE IF kind = "wrapped_nonstr"
       THEN Uncaught("TypeError") /\ UNCHANGED secret
       ELSE /\ secret' = IF kind = "scalar" THEN JScalar
                         ELSE JDict(environ.SECRET_JSON.bundle)
            /\ Goto("normalize")
    /\ UNCHANGED <<variant, environ, before, output_file, secret_mapped, env_parts, key_bytes, env_content,
                   outputs, ssh_dir, key_file, env_file, gh_output>>

Normalize ==
    /\ pc = "normalize"
    /\ IF secret.t # "dict"
       THEN Uncaught("TypeError") /\ UNCHANGED secret_mapped
       ELSE secret_mapped' = NormalizeKeys(secret.d) /\ Goto("build")
    /\ UNCHANGED <<variant, environ, before, output_file, secret, env_parts, key_bytes, env_content,
                   outputs, ssh_dir, key_file, env_file, gh_output>>

BuildEnv ==
    /\ pc = "build"
    /\ IF SiteNameRaises(secret.d, secret_mapped)
       THEN Uncaught("AttributeError") /\ UNCHANGED <<env_parts, secret_mapped>>
       ELSE /\ env_parts' = EnvParts(variant, secret.d, secret_mapped)
            /\ secret_mapped' = WithEnvContent(secret.d, secret_mapped, env_parts')
            /\ Goto("defaults")
    /\ UNCHANGED <<variant, environ, before, output_file, secret, key_bytes, env_content,
                   outputs, ssh_dir, key_file, env_file, gh_output>>

ApplyDefaults ==
    /\ pc = "defaults"
    /\ secret_mapped' = WithDefaults(secret_mapped)
    /\ secret' = JDict(secret_mapped')
    /\ Goto("validate")
    /\ UNCHANGED <<variant, environ, before, output_file, env_parts, key_bytes, env_content,
                   outputs, ssh_dir, key_file, env_file, gh_output>>

Validate ==
    /\ pc = "validate"
    /\ LET missing == MissingFields(secret.d) IN
       IF missing # <<>> THEN Fail(MissingMessage(missing)) ELSE Goto("ssh_dir")
    /\ UNCHANGED <<variant, environ, before, output_file, secret, secret_mapped, env_parts, key_bytes,
                   env_content, outputs, ssh_dir, key_file, env_file, gh_output>>

MakeSshDir ==
    /\ pc = "ssh_dir"
    /\ ssh_dir' = [exists |-> TRUE, data |-> <<>>, mode |-> Mode0700]
    /\ Goto("decode")
    /\ UNCHANGED <<variant, environ, before, output_file, secret, secret_mapped, env_parts, key_bytes,
                   env_content, outputs, key_file, env_file, gh_output>>

\* DecodeKey with the key file opened for writing before the value is decoded
DecodeKeyAfterOpen ==
    /\ pc = "decode"
    /\ key_file' = [exists |-> TRUE, data |-> <<>>,
                    mode |-> IF key_file.exists THEN key_file.mode ELSE NewFileMode]
    /\ LET r == B64Decode(secret.d["lightsail_private_key_b64"]) IN
       IF r.raises = "TypeError"
       THEN Uncaught("TypeError") /\ UNCHANGED key_bytes
       ELSE IF r.raises # ""
       THEN Fail(<<"lightsail_private_key_b64 is not valid base64 data">>)
            /\ UNCHANGED key_bytes
       ELSE key_bytes' = r.bytes /\ Goto("write_key")
    /\ UNCHANGED <<variant, environ, before, output_file, secret, secret_mapped, env_parts,
                   env_content, outputs, ssh_dir, env_file, gh_output>>

DecodeKey ==
    /\ pc = "decode"
    /\ LET r == B64Decode(secret.d["lightsail_private_key_b64"]) IN
       IF r.raises = "TypeError"
       THEN Uncaught("TypeError") /\ UNCHANGED key_bytes
       ELSE IF r.raises # ""
       THEN Fail(<<"lightsail_private_key_b64 is not valid base64 data">>)
            /\ UNCHANGED key_bytes
       ELSE key_bytes' = r.bytes /\ Goto("write_key")
    /\ UNCHANGED <<variant, environ, before, output_file, secret, secret_mapped, env_parts, env_content,
                   outputs, ssh_dir, key_file, env_file, gh_output>>

WriteKey ==
    /\ pc = "write_key"
    /\ key_file' = [exists |-> TRUE, data |-> key_bytes,
                    mode |-> IF key_file.exists THEN key_file.mode ELSE NewFileMode]
    /\ Goto("chmod_key")
    /\ UNCHANGED <<variant, environ, before, output_file, secret, secret_mapped, env_parts, key_bytes,
                   env_content, outputs, ssh_dir, env_file, gh_output>>

ChmodKey ==
    /\ pc = "chmod_key"
    /\ key_file' = [key_file EXCEPT !.mode = Mode0600]
    /\ Goto("write_env")
    /\ UNCHANGED <<variant, environ, before, output_file, secret, secret_mapped, env_parts, key_bytes,
                   env_content, outputs, ssh_dir, env_file, gh_output>>

WriteEnv ==
    /\ pc = "write_env"
    /\ env_content' = GetOr(secret.d, "env_file_content", Str(<<>>))
    /\ IF env_content'.t # "str"
       THEN Uncaught("TypeError") /\ UNCHANGED env_file
       ELSE /\ env_file' = [exists |-> TRUE, data |-> env_content'.s,
                            mode |-> IF env_file.exists THEN env_file.mode ELSE NewFileMode]
            /\ Goto("outputs")
    /\ UNCHANGED <<variant, environ, before, output_file, secret, secret_mapped, env_parts, key_bytes,
                   outputs, ssh_dir, key_file, gh_output>>

BuildOutputs ==
    /\ pc = "outputs"
    /\ outputs' = MakeOutputs(variant, secret.d, env_content)
    /\ Goto("output_file")
    /\ UNCHANGED <<variant, environ, before, output_file, secret, secret_mapped, env_parts, key_bytes,
                   env_content, ssh_dir, key_file, env_file, gh_output>>

CheckOutputFile ==
    /\ pc = "output_file"
    /\ output_file' \in {Str(<<"/runner/set_output">>), Empty, None}
    /\ IF ~Truthy(output_file')
       THEN Fail(<<"GITHUB_OUTPUT is not defined">>)
       ELSE Goto("emit")
    /\ UNCHANGED <<variant, environ, before, secret, secret_mapped, env_parts, key_bytes,
                   env_content, outputs, ssh_dir, key_file, env_file, gh_output>>

EmitOutputs ==
    /\ pc = "emit"
    /\ gh_output' = gh_output \o RenderOutputs(outputs)
    /\ pc' = "done"
    /\ exit_status' = 0
    /\ UNCHANGED <<variant, environ, before, output_file, secret, secret_mapped, env_parts, key_bytes,
                   env_content, outputs, ssh_dir, key_file, env_file, stderr>>

Next ==
    \/ ReadSecret
    \/ Normalize
    \/ BuildEnv
    \/ ApplyDefaults
    \/ Validate
    \/ MakeSshDir
    \/ DecodeKey
    \/ WriteKey
    \/ ChmodKey
    \/ WriteEnv
    \/ BuildOutputs
    \/ CheckOutputFile
    \/ EmitOutputs

Spec == Init /\ [][Next]_vars

\* the positions of main()
TypeOK == pc \in {"start", "normalize", "build", "defaults", "validate", "ssh_dir",
                  "decode", "write_key", "chmod_key", "write_env", "outputs",
                  "output_file", "emit", "done", "failed", "crashed"}

-----------------------------------------------------------------------------
(* What the claims speak of.                                               *)

Terminal == pc \in {"done", "failed", "crashed"}

\* the value of the first of `names` that is a key of the bundle, None when none is
RECURSIVE FirstPresent(_, _)
FirstPresent(b, names) ==
    IF names = <<>> THEN None
    ELSE IF Head(names) \in DOMAIN b THEN b[Head(names)]
    ELSE FirstPresent(b, Tail(names))

Synonyms(field) ==
    CASE field = "lightsail_host" -> <<"lightsail_host", "LIGHTSAIL_IP">>
      [] field = "lightsail_user" -> <<"lightsail_user", "LIGHTSAIL_USER">>
      [] field = "lightsail_port" -> <<"lightsail_port", "LIGHTSAIL_PORT">>
      [] OTHER -> <<field>>

AnyPresent(b, names) == \E i \in 1..Len(names) : names[i] \in DOMAIN b

\* a canonical field as the spec resolves it from the bundle, defaults applied
Resolved(b, field) ==
    IF AnyPresent(b, Synonyms(field)) THEN FirstPresent(b, Synonyms(field))
    ELSE CASE field = "remote_project_path" -> Str(<<"/opt/frappe-hrms">>)
           [] field = "docker_compose_file" -> Str(<<"docker/docker-compose", ".", "yml">>)
           [] field = "lightsail_port" -> Str(<<"22">>)
           [] OTHER -> None

\* absent, or empty: the empty string, or zero for a number
AbsentOrEmpty(v) == v.s = <<>> /\ v.n = 0

\* the run has normalised the keys of its bundle
Normalized == HasBundle /\ pc \notin {"start", "normalize"}

\* the run is past validation: the next statement makes <home>/.ssh
PastValidation ==
    pc \in {"ssh_dir", "decode", "write_key", "chmod_key", "write_env", "outputs",
            "output_file", "emit", "done"}

\* the run ended in fail() with this message head
FailedWith(head) ==
    /\ pc = "failed"
    /\ stderr # <<>>
    /\ Len(stderr[Len(stderr)]) >= 2
    /\ stderr[Len(stderr)][2] = head

\* the names a missing-field diagnostic lists
NamedMissing == {stderr[Len(stderr)][i] : i \in 3..Len(stderr[Len(stderr)])} \ {", "}

\* C8: each of lightsail_host, lightsail_user, lightsail_port is resolved to the
\* value of its first synonym present in the bundle (the lower-case name, then
\* the upper-case one), and host, user and port of a successful run are these
\* values (port as text, "22" when no synonym is present).
C8_FirstSynonymWins ==
    /\ Normalized =>
         \A f \in {"lightsail_host", "lightsail_user", "lightsail_port"} :
            Get(secret_mapped, f) = FirstPresent(Bundle, Synonyms(f))
    /\ pc = "done" =>
         /\ outputs[1] = Out("host", FirstPresent(Bundle, Synonyms("lightsail_host")))
         /\ outputs[2] = Out("user", FirstPresent(Bundle, Synonyms("lightsail_user")))
         /\ outputs[5] = Out("port", Str(Format(Resolved(Bundle, "lightsail_port"))))

\* a successful run whose bundle holds both synonyms of the host, with
\* different values, and only the later synonym of the port
C8_Witness ==
    /\ pc = "done"
    /\ {"lightsail_host", "LIGHTSAIL_IP", "LIGHTSAIL_PORT"} \subseteq DOMAIN Bundle
    /\ Bundle["lightsail_host"] # Bundle["LIGHTSAIL_IP"]
    /\ "lightsail_port" \notin DOMAIN Bundle

\* C2: at validation, after normalisation and defaults, main() fails with the
\* missing-field diagnostic if and only if one of the four required fields is
\* absent or empty; the diagnostic names exactly those fields; and a bundle
\* with neither lightsail_host nor LIGHTSAIL_IP always ends in that
\* diagnostic, naming lightsail_host.
C2_MissingFieldDiagnostic ==
    LET required == {RequiredFields[i] : i \in 1..Len(RequiredFields)}
        lacking == {f \in required : AbsentOrEmpty(Resolved(Bundle, f))}
    IN  /\ FailedWith(MissingPrefix) => lacking # {} /\ NamedMissing = lacking
        /\ PastValidation => lacking = {}
        /\ (Terminal /\ HasBundle /\ ~AnyPresent(Bundle, Synonyms("lightsail_host")))
             => FailedWith(MissingPrefix) /\ "lightsail_host" \in NamedMissing

\* a run that ended in the diagnostic for a bundle that gives the host, as an
\* empty string, and nothing else that is required but the path's default
C2_Witness ==
    /\ FailedWith(MissingPrefix)
    /\ AnyPresent(Bundle, Synonyms("lightsail_host"))
    /\ NamedMissing = {"lightsail_host", "lightsail_user", "lightsail_private_key_b64"}

\* the run failed before anything is written: SECRET_JSON empty or missing,
\* malformed JSON, a missing required field, or a key that is not base64
FailedBeforeWriting ==
    \/ FailedWith("SECRET_JSON environment variable is empty")
    \/ FailedWith("Unable to parse SECRET_JSON: ")
    \/ FailedWith(MissingPrefix)
    \/ FailedWith("lightsail_private_key_b64 is not valid base64 data")

\* C4: when a run fails for an empty or missing SECRET_JSON, malformed JSON, a
\* missing required field or an invalid base64 key, the key file and the
\* environment file are as they were before the run.
C4_FailureWritesNoFile ==
    FailedBeforeWriting => key_file = before.key_file /\ env_file = before.env_file

\* a run that failed on the base64 key, after it made <home>/.ssh
C4_Witness ==
    /\ FailedWith("lightsail_private_key_b64 is not valid base64 data")
    /\ ssh_dir.exists /\ ssh_dir.mode = Mode0700
    /\ before = FreshRunner

\* name=value and the name<<EOF block, as the claims describe the output file
OutLine(name, text) == <<name, "=">> \o text \o <<NL>>
OutBlock(name, text) == <<name, "<<", "EOF", NL>> \o text \o <<NL, "EOF", NL>>

\* C6: a successful run appends exactly host, user, ssh_key_path, remote_path,
\* port, compose_file, env_file, env_content, each once and in this order; port,
\* compose_file and remote_path are the bundle's values when it gives them and
\* "22", "docker/docker-compose.yml", "/opt/frappe-hrms" when it does not.
C6_EightOutputsWithDefaults ==
    pc = "done" =>
        gh_output =
            OutLine("host", Format(Resolved(Bundle, "lightsail_host")))
            \o OutLine("user", Format(Resolved(Bundle, "lightsail_user")))
            \o OutLine("ssh_key_path", KeyPath)
            \o OutLine("remote_path", Format(Resolved(Bundle, "remote_project_path")))
            \o OutLine("port", Format(Resolved(Bundle, "lightsail_port")))
            \o OutLine("compose_file", Format(Resolved(Bundle, "docker_compose_file")))
            \o OutLine("env_file", EnvPath(variant))
            \o OutBlock("env_content", env_file.data)

\* a successful run on a bundle that gives none of the three defaulted fields
C6_Witness ==
    /\ pc = "done"
    /\ ~AnyPresent(Bundle, <<"lightsail_port", "LIGHTSAIL_PORT", "docker_compose_file",
                             "remote_project_path">>)

\* a successful run on a bundle that gives all three, the port as an empty string
C6_WitnessSupplied ==
    /\ pc = "done"
    /\ {"docker_compose_file", "remote_project_path", "lightsail_port"} \subseteq DOMAIN Bundle
    /\ Bundle["lightsail_port"] = Empty

\* the entries of env_parts that a key heads
EntriesOf(key) == {i \in 1..Len(env_parts) : env_parts[i][1] = key}

\* env_parts is built and the bundle gives no env_file_content
Derived == pc = "defaults" /\ "env_file_content" \notin DOMAIN Bundle

HostFields(v) ==
    IF v = "dev" THEN <<"DATABASE_ENDPOINT", "RDS_HOSTNAME", "DB_HOST">>
    ELSE <<"DATABASE_ENDPOINT">>
PortFields(v) ==
    IF v = "dev" THEN <<"DATABASE_PORT", "RDS_PORT", "DB_PORT">>
    ELSE <<"DATABASE_PORT">>

\* the first of `names` the bundle gives a non-empty, non-zero value, None when none
RECURSIVE FirstNonEmpty(_, _)
FirstNonEmpty(b, names) ==
    IF names = <<>> THEN None
    ELSE IF Head(names) \in DOMAIN b /\ ~AbsentOrEmpty(b[Head(names)]) THEN b[Head(names)]
    ELSE FirstNonEmpty(b, Tail(names))

\* C7 as stated: without env_file_content, the derived body has exactly one
\* DB_PORT line when a database host field or port field is present and none
\* otherwise; the line carries a supplied port when a port field is present
\* and is DB_PORT=3306 when only a host field is.
C7_AsStated ==
    Derived =>
        LET hostGiven == AnyPresent(Bundle, HostFields(variant))
            portGiven == AnyPresent(Bundle, PortFields(variant))
            ports == {Format(Bundle[k]) : k \in {PortFields(variant)[i] :
                         i \in 1..Len(PortFields(variant))} \cap DOMAIN Bundle}
        IN  /\ Cardinality(EntriesOf("DB_PORT")) = IF hostGiven \/ portGiven THEN 1 ELSE 0
            /\ \A i \in EntriesOf("DB_PORT") :
                 IF portGiven THEN \E p \in ports : env_parts[i] = <<"DB_PORT", "=">> \o p
                 ELSE env_parts[i] = <<"DB_PORT", "=", "3306">>

\* C7 as amended: in the dev script a field counts only when its value is
\* non-empty (not "", not 0), and the port carried is the first non-empty one
\* of DATABASE_PORT, RDS_PORT, DB_PORT; in the lightsail script a field counts
\* when it is present.  Exactly one DB_PORT entry when a host or a port
\* counts, none otherwise; DB_PORT=3306 when only a host counts.
C7_DbPortLine ==
    Derived =>
        LET host == IF variant = "dev" THEN FirstNonEmpty(Bundle, HostFields(variant))
                    ELSE FirstPresent(Bundle, HostFields(variant))
            port == IF variant = "dev" THEN FirstNonEmpty(Bundle, PortFields(variant))
                    ELSE FirstPresent(Bundle, PortFields(variant))
        IN  /\ Cardinality(EntriesOf("DB_PORT")) = IF host # None \/ port # None THEN 1 ELSE 0
            /\ \A i \in EntriesOf("DB_PORT") :
                 env_parts[i] = IF port # None THEN <<"DB_PORT", "=">> \o Format(port)
                                ELSE <<"DB_PORT", "=", "3306">>

\* the dev script, a host that counts and a port field that is present but
\* empty: the default is injected
C7_Witness ==
    /\ Derived /\ variant = "dev"
    /\ AnyPresent(Bundle, PortFields(variant))
    /\ FirstNonEmpty(Bundle, PortFields(variant)) = None
    /\ \E i \in EntriesOf("DB_PORT") : env_parts[i] = <<"DB_PORT", "=", "3306">>

BucketKeys ==
    {"BUCKET_NAME", "BUCKET_ENDPOINT", "BUCKET_REGION", "BUCKET_ACCESS_KEY_ID",
     "BUCKET_SECRET_ACCESS_KEY"}
FlagKeys ==
    {"FILES_BACK_UP_HOURS", "EXISTING_SITE", "UPDATE_CODE", "CERTBOT_DOMAIN", "CERTBOT_EMAIL"}

\* the fields of the bundle a key of the body is derived from
SourceFields(v, key) ==
    LET set(names) == {names[i] : i \in 1..Len(names)} IN
    CASE key = "DB_HOST" -> set(HostFields(v))
      [] key = "DB_NAME" ->
           IF v = "dev" THEN {"DATABASE_NAME", "RDS_DB_NAME", "DB_NAME"} ELSE {"DATABASE_NAME"}
      [] key = "DB_USER" ->
           IF v = "dev" THEN {"DATABASE_USERNAME", "RDS_USERNAME", "DB_USER"}
           ELSE {"DATABASE_USERNAME"}
      [] key = "DB_PASSWORD" ->
           IF v = "dev" THEN {"DATABASE_PASSWORD", "RDS_PASSWORD", "DB_PASSWORD"}
           ELSE {"DATABASE_PASSWORD"}
      \* the 3306 default makes the host fields sources of DB_PORT
      [] key = "DB_PORT" -> set(PortFields(v)) \cup set(HostFields(v))
      [] key = "ADMIN_PASSWORD" ->
           IF v = "dev" THEN {"ADMIN_PASSWORD", "FRA_ADMIN_PASSWORD"} ELSE {}
      [] key = "SITE_NAME" -> {"SITE_NAME", "LIGHTSAIL_IP", "lightsail_host"}
      [] key = "SITE_URL" -> {"SITE_URL"}
      [] key \in BucketKeys \cup FlagKeys -> IF v = "dev" THEN {key} ELSE {}
      [] OTHER -> {}

\* the order of the keys as the claim gives it
StatedRank(key) ==
    CASE key = "DB_HOST" -> 1 [] key = "DB_NAME" -> 2 [] key = "DB_USER" -> 3
      [] key = "DB_PASSWORD" -> 4 [] key = "DB_PORT" -> 5 [] key = "ADMIN_PASSWORD" -> 6
      [] key = "SITE_NAME" -> 7 [] key = "SITE_URL" -> 8
      [] key \in BucketKeys -> 9 [] key \in FlagKeys -> 10 [] OTHER -> 0

\* the order with ADMIN_PASSWORD ahead of DB_PORT
AmendedRank(key) ==
    CASE key = "DB_PORT" -> 6 [] key = "ADMIN_PASSWORD" -> 5 [] OTHER -> StatedRank(key)

\* every entry is KEY=value for a known key, no key heads two entries, each
\* key has a source field in the bundle, and the body is the entries, each
\* followed by a line break
DerivedBodyShape ==
    /\ \A i \in 1..Len(env_parts) :
         /\ Len(env_parts[i]) >= 2 /\ env_parts[i][2] = "="
         /\ StatedRank(env_parts[i][1]) > 0
         /\ SourceFields(variant, env_parts[i][1]) \cap DOMAIN Bundle # {}
    /\ \A i, j \in 1..Len(env_parts) : i # j => env_parts[i][1] # env_parts[j][1]
    /\ IF env_parts = <<>> THEN "env_file_content" \notin DOMAIN secret_mapped
       ELSE /\ "env_file_content" \in DOMAIN secret_mapped
            /\ secret_mapped["env_file_content"] =
                 Str(Join([i \in 1..Len(env_parts) |-> env_parts[i] \o <<NL>>], <<>>))

KeysOrderedBy(rank(_)) ==
    \A i, j \in 1..Len(env_parts) : i < j => rank(env_parts[i][1]) <= rank(env_parts[j][1])

\* C9 as stated: the derived body is KEY=value lines, each key at most once,
\* each only with a source field present, in the order DB_HOST, DB_NAME,
\* DB_USER, DB_PASSWORD, DB_PORT, ADMIN_PASSWORD, SITE_NAME, SITE_URL, bucket
\* keys, deployment flags.
C9_AsStated == Derived => DerivedBodyShape /\ KeysOrderedBy(StatedRank)

\* C9 as amended: the same, in the order DB_HOST, DB_NAME, DB_USER,
\* DB_PASSWORD, ADMIN_PASSWORD, DB_PORT, SITE_NAME, SITE_URL, bucket keys,
\* deployment flags.
C9_DerivedBody == Derived => DerivedBodyShape /\ KeysOrderedBy(AmendedRank)

\* a derived body with ADMIN_PASSWORD, the defaulted DB_PORT, a bucket key
\* and a flag
C9_Witness ==
    /\ Derived
    /\ EntriesOf("ADMIN_PASSWORD") # {} /\ EntriesOf("DB_PORT") # {}
    /\ \E i \in 1..Len(env_parts) : env_parts[i][1] \in BucketKeys
    /\ \E i \in 1..Len(env_parts) : env_parts[i][1] \in FlagKeys

\* the run wrote the key file: it is past validation and key decoding
WroteKey == key_file # before.key_file

\* C1 as stated: when the bundle holds env_file_content, a run that gets past
\* validation and key decoding writes an environment file that is exactly that
\* value, and the env_content output is that value.
C1_AsStated ==
    (Terminal /\ HasBundle /\ WroteKey /\ "env_file_content" \in DOMAIN Bundle) =>
        /\ env_file.exists
        /\ env_file.data = Format(Bundle["env_file_content"])
        /\ outputs # <<>>
        /\ Format(outputs[8].value) = Format(Bundle["env_file_content"])

\* base64 as RFC 4648 has it: quads of alphabet characters, the last quad
\* padded with one or two "="
ValidBase64(v) ==
    /\ v.t = "str"
    /\ Len(v.s) > 0 /\ Len(v.s) % 4 = 0
    /\ \A i \in 1..Len(v.s) :
         \/ IsB64Char(v.s[i])
         \/ v.s[i] = "=" /\ i = Len(v.s)
         \/ v.s[i] = "=" /\ i = Len(v.s) - 1 /\ v.s[Len(v.s)] = "="

RECURSIVE Base64Bytes(_)
Base64Bytes(s) ==
    IF s = <<>> THEN <<>>
    ELSE LET a == B64Index(s[1])
             b == B64Index(s[2])
             bits == a * 262144 + b * 4096
                     + (IF s[3] = "=" THEN 0 ELSE B64Index(s[3]) * 64)
                     + (IF s[4] = "=" THEN 0 ELSE B64Index(s[4]))
             three == <<bits \div 65536, (bits \div 256) % 256, bits % 256>>
         IN  (IF s[3] = "=" THEN SubSeq(three, 1, 1)
              ELSE IF s[4] = "=" THEN SubSeq(three, 1, 2)
              ELSE three)
             \o Base64Bytes(SubSeq(s, 5, Len(s)))

\* the bundle gives the four required fields non-empty and the key in base64
CompleteBundle ==
    /\ HasBundle
    /\ \A i \in 1..Len(RequiredFields) : ~AbsentOrEmpty(Resolved(Bundle, RequiredFields[i]))
    /\ ValidBase64(Resolved(Bundle, "lightsail_private_key_b64"))

KeyFileInPlace ==
    /\ ssh_dir.exists /\ ssh_dir.mode = Mode0700
    /\ key_file = [exists |-> TRUE,
                   data |-> Base64Bytes(Resolved(Bundle, "lightsail_private_key_b64").s),
                   mode |-> Mode0600]

\* C3 as stated: for every bundle with the four required fields non-empty and
\* a base64 key, the run reaches the state where <home>/.ssh/lightsail holds
\* the decoded bytes with mode 0600 and <home>/.ssh has mode 0700, and ends
\* in it.
C3_AsStated == (Terminal /\ CompleteBundle) => KeyFileInPlace

\* C5 as stated: a run ends with status 0, or through fail(): one stderr line
\* that starts with "[prepare_context]", status 1, nothing appended to the
\* output file.
C5_AsStated ==
    Terminal =>
        \/ pc = "done" /\ exit_status = 0 /\ stderr = <<>>
        \/ /\ pc = "failed" /\ exit_status = 1
           /\ Len(stderr) = 1 /\ stderr[1][1] = "[prepare_context] "
           /\ gh_output = <<>>

\* C1, short of the uncaught exceptions: it holds of every run that ends in
\* success or in fail().
C1_UnlessUncaught == pc # "crashed" => C1_AsStated

\* C3, short of the uncaught exceptions: it holds of every run that ends in
\* success or in fail().
C3_UnlessUncaught == pc # "crashed" => C3_AsStated

\* The output file read back, as the runner reads the format: a line
\* name=value gives one output; a line name<<DELIMITER opens a block that the
\* first later line equal to DELIMITER closes, its lines joined by line breaks
\* being the value; empty lines between outputs are skipped.
RECURSIVE SplitLines(_, _)
SplitLines(text, line) ==
    IF text = <<>> THEN (IF line = <<>> THEN <<>> ELSE <<line>>)
    ELSE IF Head(text) = NL THEN <<line>> \o SplitLines(Tail(text), <<>>)
    ELSE SplitLines(Tail(text), Append(line, Head(text)))

IndexOf(line, atom) ==
    IF \E i \in 1..Len(line) : line[i] = atom
    THEN CHOOSE i \in 1..Len(line) : line[i] = atom /\ \A j \in 1..(i - 1) : line[j] # atom
    ELSE 0

IndexOfLine(lines, line) ==
    IF \E i \in 1..Len(lines) : lines[i] = line
    THEN CHOOSE i \in 1..Len(lines) : lines[i] = line /\ \A j \in 1..(i - 1) : lines[j] # line
    ELSE 0

Unreadable == << <<"(unreadable)">>, <<>> >>

RECURSIVE ReadOutputs(_)
ReadOutputs(lines) ==
    IF lines = <<>> THEN <<>>
    ELSE LET line == Head(lines)
             eq == IndexOf(line, "=")
             here == IndexOf(line, "<<")
         IN  IF line = <<>> THEN ReadOutputs(Tail(lines))
             ELSE IF eq > 0 /\ (here = 0 \/ eq < here)
             THEN << <<SubSeq(line, 1, eq - 1), SubSeq(line, eq + 1, Len(line))>> >>
                  \o ReadOutputs(Tail(lines))
             ELSE IF here > 0
             THEN LET rest == Tail(lines)
                      end == IndexOfLine(rest, SubSeq(line, here + 1, Len(line)))
                  IN  IF end = 0 THEN <<Unreadable>>
                      ELSE << <<SubSeq(line, 1, here - 1),
                                Join(SubSeq(rest, 1, end - 1), <<NL>>)>> >>
                           \o ReadOutputs(SubSeq(rest, end + 1, Len(rest)))
             ELSE <<Unreadable>>

\* the outputs main() emitted, as <<name, value>> texts
Emitted == [i \in 1..Len(outputs) |-> << <<outputs[i].name>>, Format(outputs[i].value) >>]

\* C10 as stated: what a successful run appended reads back as exactly the
\* eight outputs with the values main() emitted.
C10_AsStated ==
    pc = "done" => ReadOutputs(SplitLines(gh_output, <<>>)) = Emitted

\* no value the run emits holds a line break: then C10 holds, and an
\* env_content of several lines reads back whole when no line of it is EOF
NoLineOf(text, line) == IndexOfLine(SplitLines(text, <<>>), line) = 0
C10_UnlessInjected ==
    (/\ pc = "done"
     /\ \A i \in 1..7 : IndexOf(Format(outputs[i].value), NL) = 0
     /\ NoLineOf(outputs[8].value.s, <<"EOF">>))
    => ReadOutputs(SplitLines(gh_output, <<>>)) = Emitted

====
